---- MODULE Spec2Model ----
(***************************************************************************)
(* The rule-based flight booking agent (ai_agent.py): its conversation     *)
(* state machine, the intent classifier, the parameter extractor, and the  *)
(* gateway path agent -> tool server (server.py) -> booking backend.       *)
(*                                                                         *)
(* A user text is a sequence of whitespace-separated words.  The regular   *)
(* expressions of the source are modelled on words: \b is a word border,   *)
(* \s+ the gap between two adjacent words.                                 *)
(***************************************************************************)
EXTENDS Integers, Sequences, FiniteSets, TLC

\* ---------------------------------------------------------------- bounds
\* longest list of offers a backend search answers with
MaxFlights == 8
\* largest k of the user texts "book option k"
MaxOption == 4
\* longest wait counted in a wait that has no timeout
MaxWaited == 16
\* most callbacks handed to the worker loop and not yet run
MaxQueue == 3

\* ------------------------------------------------------------- constants
\* get_cheapest_flights(flights, limit=7)
Limit == 7
\* future.result(timeout=15)
CallTimeout == 15
\* thread.join(timeout=3)
JoinTimeout == 3
\* numbers that appear as words of a text (day of month, option number)
MaxNumber == 31

\* ------------------------------------------------------------ user texts
Min(a, b) == IF a < b THEN a ELSE b

NumberWords == { ToString(n) : n \in 0..MaxNumber }

\* int(group) of a word matched by \d+
IntOf(w) == CHOOSE n \in 0..MaxNumber : ToString(n) = w

\* str.lower() on one word
LowerWord(w) ==
    CASE w \in {"Book", "BOOK"} -> "book"
      [] w = "Reserve" -> "reserve"
      [] w \in {"Exit", "EXIT"} -> "exit"
      [] w = "Quit" -> "quit"
      [] w = "No" -> "no"
      [] w = "Cancel" -> "cancel"
      [] w = "Option" -> "option"
      [] w = "Mumbai" -> "mumbai"
      [] w = "Delhi" -> "delhi"
      [] w = "Dec" -> "dec"
      [] w = "Feb" -> "feb"
      [] w = "John" -> "john"
      [] w = "Doe" -> "doe"
      [] w = "ECONOMY" -> "economy"
      [] w = "FIRST" -> "first"
      [] OTHER -> w

\* str.lower() on a text
Lower(text) == [i \in 1..Len(text) |-> LowerWord(text[i])]

\* the texts the user types
OptionTexts == { <<"book", "option", ToString(k)>> : k \in 0..MaxOption }

SearchTexts ==
    { <<"flights", "from", "Mumbai", "to", "Delhi", "5", "Dec">>,
      <<"flights", "from", "mumbai", "to", "delhi", "30", "feb">>,
      <<"flights", "from", "mumbai", "to", "delhi", "29", "feb">>,
      <<"flights", "to", "delhi", "5", "dec">> }

PassengerTexts ==
    { <<"John", "Doe", "1990-01-01", "economy">>,
      <<"John", "Doe", "1990-01-01", "FIRST", "please">>,
      <<"don't", "Doe", "1990-01-01", "FIRST">>,
      <<"John", "Doe", "tomorrow", "ECONOMY">> }

OtherTexts ==
    { <<"exit">>, <<"Quit">>, <<"exit", "now">>, <<"hello">>,
      <<"No">>, <<"do", "not">>,
      <<"Book", "cheapest">>, <<"book", "2">>, <<"book", "cheapest", "option", "2">>,
      <<"Reserve", "a", "seat">>, <<"booking", "status">>,
      <<"cancel", "book", "option", "1">> }

Inputs == OptionTexts \cup SearchTexts \cup PassengerTexts \cup OtherTexts

\* -------------------------------------------------- patterns on the text
\* re.search(r"\b(book|reserve)\b", text)
HasBookingVerb(text) == \E i \in 1..Len(text) : text[i] \in {"book", "reserve"}

\* re.search(r"\b(book option|book cheapest|book\s+\d+)\b", text)
IsSelectPair(a, b) == a = "book" /\ b \in ({"option", "cheapest"} \cup NumberWords)
IsBookSelect(text) == \E i \in 1..(Len(text) - 1) : IsSelectPair(text[i], text[i + 1])

\* re.search(r"option\s+(\d+)", text): the leftmost match, if any
IsOptionPair(a, b) == a = "option" /\ b \in NumberWords
HasOptionIndex(text) == \E i \in 1..(Len(text) - 1) : IsOptionPair(text[i], text[i + 1])
OptionNumber(text) ==
    LET i == CHOOSE j \in 1..(Len(text) - 1) :
                 /\ IsOptionPair(text[j], text[j + 1])
                 /\ \A h \in 1..(j - 1) : ~IsOptionPair(text[h], text[h + 1])
    IN  IntOf(text[i + 1])

\* re.search(r"\b(no|don't|do not|not now|cancel|exit|stop)\b", text)
IsDeclinePair(a, b) == (a = "do" /\ b = "not") \/ (a = "not" /\ b = "now")
IsDecline(text) ==
    \/ \E i \in 1..Len(text) : text[i] \in {"no", "don't", "cancel", "exit", "stop"}
    \/ \E i \in 1..(Len(text) - 1) : IsDeclinePair(text[i], text[i + 1])

\* user_input.lower() in ("exit", "quit")
IsExit(user_input) == Lower(user_input) \in {<<"exit">>, <<"quit">>}

\* ---------------------------------------------------------------- intent
OracleLabels == {"SEARCH_FLIGHTS", "GENERAL_CHAT", "UNSURE"}

\* detect_intent with the text matched as typed, not lowercased
detect_intent_CaseSensitive(user_input, oracle) ==
    IF HasBookingVerb(user_input)
    THEN [label |-> "BOOK_FLIGHT", asked |-> FALSE]
    ELSE [label |-> oracle, asked |-> TRUE]

\* detect_intent: the label, and whether the language oracle was asked
detect_intent(user_input, oracle) ==
    IF HasBookingVerb(Lower(user_input))
    THEN [label |-> "BOOK_FLIGHT", asked |-> FALSE]
    ELSE [label |-> oracle, asked |-> TRUE]

\* ------------------------------------------------------------ passengers
DateWords == {"1990-01-01"}
ClassWords == {"economy", "business", "first"}
\* a word \w+ matches whole: no apostrophe, no hyphen
IsPlainWord(w) == w \notin (DateWords \cup {"don't"})

\* parse_passenger_details: re.match of the pattern at the start of the text,
\* IGNORECASE on the class; None is the empty sequence
parse_passenger_details(text) ==
    IF /\ Len(text) >= 4
       /\ IsPlainWord(text[1])
       /\ IsPlainWord(text[2])
       /\ text[3] \in DateWords
       /\ LowerWord(text[4]) \in ClassWords
    THEN << [firstName |-> text[1], lastName |-> text[2],
             dob |-> text[3], travellerClass |-> LowerWord(text[4])] >>
    ELSE << >>

\* ----------------------------------------------------------------- dates
IsLeap(y) == (y % 4 = 0 /\ y % 100 # 0) \/ y % 400 = 0

DaysIn(y, m) ==
    IF m = 2 THEN (IF IsLeap(y) THEN 29 ELSE 28)
    ELSE IF m \in {4, 6, 9, 11} THEN 30 ELSE 31

\* datetime(y, m, d) raises ValueError unless this holds
ValidDate(y, m, d) == m \in 1..12 /\ d >= 1 /\ d <= DaysIn(y, m)

\* candidate <= today in place of candidate < today
DateBefore_OrSame(a, b) ==
    \/ a[1] < b[1]
    \/ a[1] = b[1] /\ a[2] < b[2]
    \/ a[1] = b[1] /\ a[2] = b[2] /\ a[3] <= b[3]

\* candidate < today, dates as <<year, month, day>>
DateBefore(a, b) ==
    \/ a[1] < b[1]
    \/ a[1] = b[1] /\ a[2] < b[2]
    \/ a[1] = b[1] /\ a[2] = b[2] /\ a[3] < b[3]

\* date.today()
Todays == { <<2024, 2, 29>>, <<2024, 12, 5>>, <<2025, 6, 15>> }

\* ------------------------------------------------------------ extraction
\* city_map, in the order of the dict
city_map ==
    << <<"mumbai", "BOM">>, <<"bombay", "BOM">>, <<"delhi", "DEL">>,
       <<"bengaluru", "BLR">>, <<"bangalore", "BLR">>, <<"kolkata", "CCU">>,
       <<"ranchi", "IXR">> >>

\* the code of the last city of city_map that follows word in text, "" if none
CityAfter(text, word) ==
    LET hits == { c \in 1..Len(city_map) :
                    \E i \in 1..(Len(text) - 1) :
                       text[i] = word /\ text[i + 1] = city_map[c][1] }
    IN  IF hits = {} THEN ""
        ELSE city_map[CHOOSE c \in hits : \A d \in hits : d <= c][2]

MonthWords == {"jan", "feb", "mar", "jun", "dec"}
\* datetime.strptime(group.title(), "%b").month
MonthOf(w) ==
    CASE w = "jan" -> 1
      [] w = "feb" -> 2
      [] w = "mar" -> 3
      [] w = "jun" -> 6
      [] OTHER -> 12

IsDatePair(a, b) == a \in NumberWords /\ b \in MonthWords
HasDate(text) == \E i \in 1..(Len(text) - 1) : IsDatePair(text[i], text[i + 1])
DateAt(text) ==
    CHOOSE j \in 1..(Len(text) - 1) :
        /\ IsDatePair(text[j], text[j + 1])
        /\ \A h \in 1..(j - 1) : ~IsDatePair(text[h], text[h + 1])

NoParams == [origin |-> "", destination |-> "", departDate |-> << >>]

\* what the language oracle answers to the extraction prompt
LLMExtractions == {"complete", "incomplete", "malformed"}
\* the parsed JSON of a complete answer
LLMParams == [origin |-> "BOM", destination |-> "DEL", departDate |-> <<2025, 1, 1>>]

\* year = today.year; candidate = datetime(year, month, day).date();
\* if candidate < today: year += 1   (the candidate exists)
ResolveYear(today, month, day) ==
    IF DateBefore(<<today[1], month, day>>, today) THEN today[1] + 1 ELSE today[1]

\* the regex fallback of extract_search_params; year is the resolved year,
\* 0 when the fallback does not get that far
ExtractFallback(user_input, today) ==
    LET text == Lower(user_input)
        origin == CityAfter(text, "from")
        destination == CityAfter(text, "to")
    IN  IF ~(origin # "" /\ destination # "" /\ HasDate(text))
        THEN [status |-> "empty", params |-> NoParams, year |-> 0]
        ELSE LET day == IntOf(text[DateAt(text)])
                 month == MonthOf(text[DateAt(text) + 1])
             IN  IF ~ValidDate(today[1], month, day)
                 THEN [status |-> "raise", params |-> NoParams, year |-> 0]
                 ELSE LET year == ResolveYear(today, month, day)
                      IN  IF ~ValidDate(year, month, day)
                          THEN [status |-> "raise", params |-> NoParams, year |-> year]
                          ELSE [status |-> "ok",
                                params |-> [origin |-> origin,
                                            destination |-> destination,
                                            departDate |-> <<year, month, day>>],
                                year |-> year]

\* extract_search_params: the oracle's JSON when complete, else the fallback
extract_search_params(user_input, llm, today) ==
    IF llm = "complete"
    THEN [status |-> "ok", params |-> LLMParams, year |-> 0]
    ELSE ExtractFallback(user_input, today)

\* how extract_search_params can end for a line, over the answers of the
\* oracle and the days it can be run on
Extractions(user_input) ==
    { [status |-> extract_search_params(user_input, llm, today).status] :
        llm \in LLMExtractions, today \in Todays }

\* ---------------------------------------------------------------- offers
\* the price of an offer is a string of digits, as the backend writes it
\* float(f["price"])
RECURSIVE Float(_)
Float(p) == IF p = << >> THEN 0
            ELSE 10 * Float(SubSeq(p, 1, Len(p) - 1)) + p[Len(p)]

\* the lists of offers a search can answer with: n offers, offerId the
\* position, the first k of them cheap and the rest dear, or the reverse
OfferList(n, k, cheapFirst) ==
    [i \in 1..n |-> [offerId |-> i,
                     price |-> IF (i <= k) = cheapFirst THEN <<9>> ELSE <<1, 0>>]]

OfferLists ==
    { OfferList(n, k, b) : n \in 0..MaxFlights, k \in 0..MaxFlights, b \in BOOLEAN }

\* sorted(flights, key=...): stable, ascending
InsertByPrice(s, f) ==
    LET k == Cardinality({ i \in 1..Len(s) : Float(s[i].price) <= Float(f.price) })
    IN  SubSeq(s, 1, k) \o <<f>> \o SubSeq(s, k + 1, Len(s))

RECURSIVE SortedByPrice(_)
SortedByPrice(s) ==
    IF s = << >> THEN << >>
    ELSE InsertByPrice(SortedByPrice(SubSeq(s, 1, Len(s) - 1)), s[Len(s)])

\* get_cheapest_flights that cuts the list without sorting it
get_cheapest_flights_Unsorted(fl) == SubSeq(fl, 1, Min(Limit, Len(fl)))

\* get_cheapest_flights(flights, limit=7)
get_cheapest_flights(fl) == SubSeq(SortedByPrice(fl), 1, Min(Limit, Len(fl)))

\* seq[index] of Python: negative indices count from the end; "raise" is IndexError
PyIndex(s, index) ==
    IF index >= 0 /\ index < Len(s) THEN [status |-> "ok", at |-> index + 1]
    ELSE IF index < 0 /\ 0 - index <= Len(s) THEN [status |-> "ok", at |-> Len(s) + index + 1]
    ELSE [status |-> "raise", at |-> 0]

\* ------------------------------------------------------- backend answers
\* a JSON value: an array of offers, or an object that may hold "data" and
\* "bookingReference"
JArray(items) ==
    [type |-> "array", items |-> items, hasData |-> FALSE, bookingReference |-> FALSE]
JObject(hasData, items, ref) ==
    [type |-> "object", items |-> items, hasData |-> hasData, bookingReference |-> ref]
JError == JObject(FALSE, << >>, FALSE)

\* what one HTTP request to the backend ends in: a JSON body (whatever the
\* status code), a body that is not JSON, or no connection
Answer(body) == [kind |-> "json", body |-> body]
NotJson == [kind |-> "nonjson", body |-> JError]
ConnError == [kind |-> "conn_error", body |-> JError]

SearchAnswers ==
    { Answer(JArray(l)) : l \in OfferLists }
    \cup { Answer(JObject(TRUE, l, FALSE)) : l \in OfferLists }
    \cup { Answer(JError), NotJson, ConnError }

BookAnswers ==
    { Answer(JObject(FALSE, << >>, TRUE)), Answer(JError), Answer(JArray(<< >>)),
      NotJson, ConnError }

\* ----------------------------------------------------- server.py gateway
Returned(v) == [raised |-> FALSE, value |-> v]
Raised == [raised |-> TRUE, value |-> JError]

\* post / get: requests.post(...).json()
post(answer) == IF answer.kind = "json" THEN Returned(answer.body) ELSE Raised

\* the registry filled by register_tool
TOOLS == { "ping", "create_user", "get_user", "search_flights",
           "create_oneway_booking", "create_roundtrip_booking",
           "get_booking_by_id", "get_bookings_by_user",
           "get_booking_by_reference" }

\* the backend route each registered handler calls
Route(tool_name) ==
    CASE tool_name = "create_user" -> "POST /users"
      [] tool_name = "get_user" -> "GET /users/{userId}"
      [] tool_name = "search_flights" -> "POST /flights/search"
      [] tool_name = "create_oneway_booking" -> "POST /bookings/oneway"
      [] tool_name = "create_roundtrip_booking" -> "POST /bookings/roundtrip"
      [] tool_name = "get_booking_by_id" -> "GET /bookings/{bookingId}"
      [] tool_name = "get_bookings_by_user" -> "GET /bookings/user/{userId}"
      [] tool_name = "get_booking_by_reference" -> "GET /bookings/reference/{reference}"
      [] OTHER -> ""

\* the key a handler reads with args[...], "" if it passes args through
PathArg(tool_name) ==
    CASE tool_name \in {"get_user", "get_bookings_by_user"} -> "userId"
      [] tool_name = "get_booking_by_id" -> "bookingId"
      [] tool_name = "get_booking_by_reference" -> "reference"
      [] OTHER -> ""

\* what a handler ends in: a value or an exception, and the backend route it
\* called, "" if none; args is the set of keys of the envelope's args
Handled(r, route, exception) ==
    [raised |-> r.raised, value |-> r.value, route |-> route, exception |-> exception]

\* TOOLS[tool_name]["handler"](call.args)
Handler(tool_name, args, answer) ==
    IF tool_name = "ping" THEN Handled(Returned(JObject(FALSE, << >>, FALSE)), "", "")
    ELSE IF PathArg(tool_name) # "" /\ PathArg(tool_name) \notin args
    THEN Handled(Raised, "", "KeyError")
    ELSE Handled(post(answer), Route(tool_name),
                 IF post(answer).raised THEN "RequestException" ELSE "")

\* call_tool: the HTTP response of POST /tools/{tool_name}; an exception in
\* the handler becomes status 500 with a body that is not JSON
call_tool(tool_name, args, answer) ==
    IF tool_name \notin TOOLS
    THEN [status |-> 200, json |-> TRUE, body |-> JError, backend |-> FALSE,
          route |-> "", exception |-> ""]
    ELSE LET r == Handler(tool_name, args, answer)
         IN  IF r.raised
             THEN [status |-> 500, json |-> FALSE, body |-> JError,
                   backend |-> r.route # "", route |-> r.route, exception |-> r.exception]
             ELSE [status |-> 200, json |-> TRUE, body |-> r.value,
                   backend |-> r.route # "", route |-> r.route, exception |-> ""]

\* ------------------------------------------------------ ai_agent gateway
\* the keys of the args the agent sends: search params, booking payload
AgentArgs(tool_name) ==
    IF tool_name = "search_flights"
    THEN {"origin", "destination", "departDate", "tripType", "adults", "cabin"}
    ELSE {"userId", "offerId", "tripType", "departDate", "paymentMethod", "passengers"}

\* requests.post(f"{TOOL_SERVER}/...", ...).json(): raises when the tool
\* server is unreachable or its body is not JSON
AgentPost(tool_name, serverUp, answer) ==
    IF ~serverUp THEN Raised
    ELSE LET h == call_tool(tool_name, AgentArgs(tool_name), answer)
         IN  IF h.json THEN Returned(h.body) ELSE Raised

search_flights(serverUp, answer) == AgentPost("search_flights", serverUp, answer)

create_oneway_booking(serverUp, answer) == AgentPost("create_oneway_booking", serverUp, answer)

\* ------------------------------------------------------------- the state
VARIABLES
    conversation_state,   \* "IDLE", "SEARCH_DONE", "AWAITING_PASSENGER_DETAILS"
    last_flights,         \* the cached offers
    selected_flight,      \* << >> for None, else <<offer>>
    user_input,           \* the line read last
    intent,               \* the label detect_intent gave it
    pc,                   \* "prompt": at input(); "done": after break;
                          \* "crashed": ended by an uncaught exception
    error,                \* the uncaught exception, "" if none
    calls,                \* the calls to oracle and backend made for the
                          \* line read last, in order, each with its outcome
    \* extract_search_params on its own
    today,                \* date.today()
    xtext,                \* the text it is called with
    xllm,                 \* what the oracle answers to the extraction prompt
    xresult,              \* what the call ends in
    \* server.py on its own
    http_request,         \* POST /tools/{tool_name} with its args
    backend_answer,       \* what the backend answers if it is asked
    http_response,        \* what the tool server answers
    \* ThreadedMCPBridge: the caller thread and the worker thread
    cpc,                  \* caller: "idle", or inside a wait: "start_wait"
                          \* (ready_event.wait), "call_wait" (future.result),
                          \* "join_wait" (thread.join)
    waited,               \* time units spent in the caller's current wait
    outcome,              \* the bridge method entered last and how it ended
    start_returned,       \* start() has returned
    wpc,                  \* worker: its position in _run_loop / _lifecycle
    bridge_session,       \* self.session: "none" or "set"
    ready_event,          \* threading.Event: set or not
    shutdown_event,       \* "none" before it is created, "clear", "set"
    transport,            \* the stdio connection to the server is open
    loop_queue,           \* callbacks handed to the worker loop, not yet run
    future                \* the future of the call the caller waits for

vars == <<conversation_state, last_flights, selected_flight, user_input,
          intent, pc, error, calls>>

session == <<conversation_state, last_flights, selected_flight>>

xvars == <<today, xtext, xllm, xresult>>

svars == <<http_request, backend_answer, http_response>>

bvars == <<cpc, waited, outcome, start_returned, wpc, bridge_session,
           ready_event, shutdown_event, transport, loop_queue, future>>

\* the parts of the state the main loop of ai_agent.py does not touch
others == <<xvars, svars, bvars>>

\* no call of extract_search_params yet
NotCalled == [status |-> "none", params |-> NoParams, year |-> 0]
ExtractIdle ==
    /\ today = <<2024, 12, 5>>
    /\ xtext = << >>
    /\ xllm = ""
    /\ xresult = NotCalled

AgentInit ==
    /\ conversation_state = "IDLE"
    /\ last_flights = << >>
    /\ selected_flight = << >>
    /\ user_input = << >>
    /\ intent = ""
    /\ pc = "prompt"
    /\ error = ""
    /\ calls = << >>

\* no request to the tool server yet
NoRequest == [tool_name |-> "", args |-> {}]
NoResponse == [status |-> 0, json |-> FALSE, body |-> JError, backend |-> FALSE,
               route |-> "", exception |-> ""]
ServerIdle ==
    /\ http_request = NoRequest
    /\ backend_answer = ConnError
    /\ http_response = NoResponse

\* ThreadedMCPBridge.__init__: no thread started, no session, no event
NoOutcome == [op |-> "", status |-> "", value |-> ""]
BridgeInit ==
    /\ cpc = "idle"
    /\ waited = 0
    /\ outcome = NoOutcome
    /\ start_returned = FALSE
    /\ wpc = "new"
    /\ bridge_session = "none"
    /\ ready_event = FALSE
    /\ shutdown_event = "none"
    /\ transport = FALSE
    /\ loop_queue = << >>
    /\ future = "none"

Init == AgentInit /\ ExtractIdle /\ ServerIdle /\ BridgeInit

\* one entry of calls
Call(op, r) == [op |-> op, raised |-> r.raised, value |-> r.value]
OracleCall(op) == Call(op, Returned(JError))

\* the call detect_intent makes, if any
IntentCalls(d) == IF d.asked THEN <<OracleCall("classify")>> ELSE << >>

\* response.get("data") if isinstance(response, dict) else response
FlightsOf(response) ==
    IF response.type = "object"
    THEN (IF response.hasData THEN response.items ELSE << >>)
    ELSE response.items

\* what the gateway can hand to the agent for a search, for a booking
SearchResults == { search_flights(up, a) : up \in BOOLEAN, a \in SearchAnswers }
BookResults == { create_oneway_booking(up, a) : up \in BOOLEAN, a \in BookAnswers }

\* the chain with the SEARCH branch open in every conversation state
Branch_SearchAnywhere(state, label, text) ==
    IF label = "SEARCH_FLIGHTS" THEN "SEARCH"
    ELSE IF state = "SEARCH_DONE" /\ IsBookSelect(text) THEN "BOOK_SELECT"
    ELSE IF state = "SEARCH_DONE" /\ IsDecline(text) THEN "DECLINE"
    ELSE IF state = "AWAITING_PASSENGER_DETAILS" THEN "PASSENGER"
    ELSE "CHAT"

\* the chain with the decline branch open in every conversation state
Branch_DeclineAnywhere(state, label, text) ==
    IF label = "SEARCH_FLIGHTS" /\ state = "IDLE" THEN "SEARCH"
    ELSE IF state = "SEARCH_DONE" /\ IsBookSelect(text) THEN "BOOK_SELECT"
    ELSE IF IsDecline(text) THEN "DECLINE"
    ELSE IF state = "AWAITING_PASSENGER_DETAILS" THEN "PASSENGER"
    ELSE "CHAT"

\* the if / elif chain of the main loop: the branch that handles a line
Branch(state, label, text) ==
    IF label = "SEARCH_FLIGHTS" /\ state = "IDLE" THEN "SEARCH"
    ELSE IF state = "SEARCH_DONE" /\ IsBookSelect(text) THEN "BOOK_SELECT"
    ELSE IF state = "SEARCH_DONE" /\ IsDecline(text) THEN "DECLINE"
    ELSE IF state = "AWAITING_PASSENGER_DETAILS" THEN "PASSENGER"
    ELSE "CHAT"

\* a line is read and classified, and the chain picks branch b for it
Reads(line, oracle, b) ==
    /\ pc = "prompt"
    /\ ~IsExit(line)
    /\ Branch(conversation_state, detect_intent(line, oracle).label, Lower(line)) = b
    /\ user_input' = line
    /\ intent' = detect_intent(line, oracle).label
    /\ UNCHANGED others

\* the loop goes back to input()
Continue == pc' = "prompt" /\ error' = ""
\* an exception nobody catches ends the program
Crash(e) == pc' = "crashed" /\ error' = e

\* ------------------------------------------------------------ operations
\* "exit" or "quit": break
Exit(line) ==
    /\ pc = "prompt"
    /\ IsExit(line)
    /\ user_input' = line
    /\ pc' = "done"
    /\ calls' = << >>
    /\ UNCHANGED <<session, intent, error, others>>

\* SEARCH branch
Search(line, oracle, e) ==
    /\ Reads(line, oracle, "SEARCH")
    /\ LET d == detect_intent(line, oracle)
           pre == IntentCalls(d) \o <<OracleCall("extract")>>
       IN  IF e.status = "raise"
           THEN /\ Crash("ValueError")
                /\ calls' = pre
                /\ UNCHANGED session
           ELSE IF e.status = "empty"
           THEN /\ Continue
                /\ calls' = pre
                /\ UNCHANGED session
           ELSE \E r \in SearchResults :
                /\ calls' = pre \o <<Call("search", r)>>
                /\ IF r.raised
                   THEN /\ Crash("RequestException")
                        /\ UNCHANGED session
                   ELSE IF FlightsOf(r.value) = << >>
                   THEN /\ Continue
                        /\ UNCHANGED session
                   ELSE /\ Continue
                        /\ last_flights' = get_cheapest_flights(FlightsOf(r.value))
                        /\ conversation_state' = "SEARCH_DONE"
                        /\ UNCHANGED selected_flight

\* the index taken as the option number itself
SelectIndex_OffByOne(text) == IF HasOptionIndex(text) THEN OptionNumber(text) ELSE 0

\* index = int(idx_match.group(1)) - 1 if idx_match else 0
SelectIndex(text) == IF HasOptionIndex(text) THEN OptionNumber(text) - 1 ELSE 0

\* the BOOK SELECT branch without the assignment to selected_flight
BookSelect_NoSelection(line, oracle) ==
    /\ Reads(line, oracle, "BOOK_SELECT")
    /\ calls' = IntentCalls(detect_intent(line, oracle))
    /\ Continue
    /\ conversation_state' = "AWAITING_PASSENGER_DETAILS"
    /\ UNCHANGED <<last_flights, selected_flight>>

\* BOOK SELECT branch
BookSelect(line, oracle) ==
    /\ Reads(line, oracle, "BOOK_SELECT")
    /\ calls' = IntentCalls(detect_intent(line, oracle))
    /\ LET at == PyIndex(last_flights, SelectIndex(Lower(line)))
       IN  IF at.status = "raise"
           THEN /\ Crash("IndexError")
                /\ UNCHANGED session
           ELSE /\ Continue
                /\ selected_flight' = <<last_flights[at.at]>>
                /\ conversation_state' = "AWAITING_PASSENGER_DETAILS"
                /\ UNCHANGED last_flights

\* the decline branch without the reset of last_flights
Decline_KeepsOffers(line, oracle) ==
    /\ Reads(line, oracle, "DECLINE")
    /\ calls' = IntentCalls(detect_intent(line, oracle))
    /\ Continue
    /\ conversation_state' = "IDLE"
    /\ selected_flight' = << >>
    /\ UNCHANGED last_flights

\* decline branch
Decline(line, oracle) ==
    /\ Reads(line, oracle, "DECLINE")
    /\ calls' = IntentCalls(detect_intent(line, oracle))
    /\ Continue
    /\ conversation_state' = "IDLE"
    /\ last_flights' = << >>
    /\ selected_flight' = << >>

\* the PASSENGER + BOOK branch without the reset of selected_flight
PassengerBook_KeepsSelection(line, oracle) ==
    /\ Reads(line, oracle, "PASSENGER")
    /\ LET pre == IntentCalls(detect_intent(line, oracle))
       IN  IF parse_passenger_details(line) = << >>
           THEN /\ Continue
                /\ calls' = pre
                /\ UNCHANGED session
           ELSE IF selected_flight = << >>
           THEN /\ Crash("TypeError")
                /\ calls' = pre
                /\ UNCHANGED session
           ELSE \E r \in BookResults :
                /\ calls' = pre \o <<Call("book", r)>>
                /\ IF r.raised
                   THEN /\ Crash("RequestException")
                        /\ UNCHANGED session
                   ELSE IF r.value.type # "object"
                   THEN /\ Crash("AttributeError")
                        /\ UNCHANGED session
                   ELSE /\ Continue
                        /\ conversation_state' = "IDLE"
                        /\ last_flights' = << >>
                        /\ UNCHANGED selected_flight

\* the PASSENGER + BOOK branch without the reset after the booking
PassengerBook_StaysAwaiting(line, oracle) ==
    /\ Reads(line, oracle, "PASSENGER")
    /\ LET pre == IntentCalls(detect_intent(line, oracle))
       IN  IF parse_passenger_details(line) = << >>
           THEN /\ Continue
                /\ calls' = pre
                /\ UNCHANGED session
           ELSE IF selected_flight = << >>
           THEN /\ Crash("TypeError")
                /\ calls' = pre
                /\ UNCHANGED session
           ELSE \E r \in BookResults :
                /\ calls' = pre \o <<Call("book", r)>>
                /\ IF r.raised
                   THEN /\ Crash("RequestException")
                        /\ UNCHANGED session
                   ELSE IF r.value.type # "object"
                   THEN /\ Crash("AttributeError")
                        /\ UNCHANGED session
                   ELSE /\ Continue
                        /\ UNCHANGED session

\* PASSENGER + BOOK branch
PassengerBook(line, oracle) ==
    /\ Reads(line, oracle, "PASSENGER")
    /\ LET pre == IntentCalls(detect_intent(line, oracle))
       IN  IF parse_passenger_details(line) = << >>
           THEN /\ Continue
                /\ calls' = pre
                /\ UNCHANGED session
           ELSE IF selected_flight = << >>
           THEN /\ Crash("TypeError")
                /\ calls' = pre
                /\ UNCHANGED session
           ELSE \E r \in BookResults :
                /\ calls' = pre \o <<Call("book", r)>>
                /\ IF r.raised
                   THEN /\ Crash("RequestException")
                        /\ UNCHANGED session
                   ELSE IF r.value.type # "object"
                   THEN /\ Crash("AttributeError")
                        /\ UNCHANGED session
                   ELSE /\ Continue
                        /\ conversation_state' = "IDLE"
                        /\ selected_flight' = << >>
                        /\ last_flights' = << >>

\* CHAT branch
Chat(line, oracle) ==
    /\ Reads(line, oracle, "CHAT")
    /\ calls' = IntentCalls(detect_intent(line, oracle)) \o <<OracleCall("chat")>>
    /\ Continue
    /\ UNCHANGED session

Next ==
    \/ \E line \in Inputs : Exit(line)
    \/ \E line \in Inputs, oracle \in OracleLabels :
          \E e \in Extractions(line) : Search(line, oracle, e)
    \/ \E line \in Inputs, oracle \in OracleLabels : BookSelect(line, oracle)
    \/ \E line \in Inputs, oracle \in OracleLabels : Decline(line, oracle)
    \/ \E line \in Inputs, oracle \in OracleLabels : PassengerBook(line, oracle)
    \/ \E line \in Inputs, oracle \in OracleLabels : Chat(line, oracle)

Spec == Init /\ [][Next]_vars

\* ------------------------------------------ extract_search_params alone
\* the days extract_search_params is run on
ExtractTodays ==
    { t \in { <<y, md[1], md[2]>> : y \in {2023, 2024},
                md \in { <<1, 1>>, <<2, 28>>, <<2, 29>>, <<3, 1>>, <<6, 15>>, <<12, 31>> } } :
        ValidDate(t[1], t[2], t[3]) }

\* the texts it is called with
ExtractDays == {0, 1, 15, 28, 29, 30, 31}
ExtractTexts ==
    SearchTexts
    \cup { <<"fly", "from", "ranchi", "to", "kolkata", ToString(d), m>> :
             d \in ExtractDays, m \in MonthWords }
    \cup { <<"hello">>, <<"from", "delhi", "15", "jun">>, <<"from", "delhi", "to", "mumbai">> }

ExtractInit ==
    /\ AgentInit
    /\ ServerIdle
    /\ BridgeInit
    /\ today \in ExtractTodays
    /\ xtext = << >>
    /\ xllm = ""
    /\ xresult = NotCalled

\* params = extract_search_params(user_input)
ExtractParams(line, llm) ==
    /\ xtext' = line
    /\ xllm' = llm
    /\ xresult' = extract_search_params(line, llm, today)
    /\ UNCHANGED <<today, vars, svars, bvars>>

ExtractNext == \E line \in ExtractTexts, llm \in LLMExtractions : ExtractParams(line, llm)

SpecExtract == ExtractInit /\ [][ExtractNext]_xvars


\* ------------------------------------------------------- server.py alone
\* names a client can put in the path: the registry and two outside it
ToolNames == TOOLS \cup {"book_flight", "list_tools"}

\* keys a client can put in args
ArgSets == SUBSET {"userId", "bookingId", "reference", "origin"}

ServerAnswers ==
    { Answer(JObject(FALSE, << >>, TRUE)), Answer(JError),
      Answer(JArray(OfferList(1, 0, TRUE))), NotJson, ConnError }

ServerInit ==
    /\ AgentInit
    /\ ExtractIdle
    /\ ServerIdle
    /\ BridgeInit

\* one POST /tools/{name} and its response
PostTool(name, args, answer) ==
    /\ http_request' = [tool_name |-> name, args |-> args]
    /\ backend_answer' = answer
    /\ http_response' = call_tool(name, args, answer)
    /\ UNCHANGED <<vars, xvars, bvars>>

ServerNext ==
    \E name \in ToolNames, args \in ArgSets, answer \in ServerAnswers :
        PostTool(name, args, answer)

SpecServer == ServerInit /\ [][ServerNext]_svars

\* ------------------------------------------- ThreadedMCPBridge alone
\* the rest of the state, which the bridge does not touch
rest == <<vars, xvars, svars>>

\* self.loop.is_running(): the worker is inside run_until_complete
LoopIsRunning(w) ==
    w \in {"lifecycle", "connecting", "connected", "initializing", "initialized",
           "waiting", "disconnecting"}

\* the worker thread has ended
ThreadEnded(w) == w \in {"stopped", "failed"}

Entered(op) == [op |-> op, status |-> "running", value |-> ""]
Gave(op, v) == [op |-> op, status |-> "returned", value |-> v]
Threw(op, e) == [op |-> op, status |-> "raised", value |-> e]

\* a call abandoned by its caller: its coroutine stays with the loop
Abandon(q) == [i \in 1..Len(q) |-> IF q[i] = "tool" THEN "stale" ELSE q[i]]

\* call_tool with the TimeoutError of future.result let through
CallOutcome_TimeoutEscapes(f) ==
    IF f = "result_ok" THEN Gave("call_tool", "text")
    ELSE IF f = "result_error" THEN Gave("call_tool", "Error: content")
    ELSE IF f = "exception" THEN Gave("call_tool", "Error executing tool")
    ELSE Threw("call_tool", "TimeoutError")

\* the try / except around future.result(timeout=15): f is the future when
\* the wait ends, "pending" if the timeout ended it
CallOutcome(f) ==
    IF f = "result_ok" THEN Gave("call_tool", "text")
    ELSE IF f = "result_error" THEN Gave("call_tool", "Error: content")
    ELSE Gave("call_tool", "Error executing tool")

\* -- the caller thread
\* start(): thread.start(), then ready_event.wait()
Start ==
    /\ cpc = "idle"
    /\ wpc = "new"
    /\ wpc' = "spawned"
    /\ cpc' = "start_wait"
    /\ waited' = 0
    /\ outcome' = Entered("start")
    /\ UNCHANGED <<start_returned, bridge_session, ready_event, shutdown_event,
                   transport, loop_queue, future, rest>>

\* ready_event.wait() returns once the event is set
StartReturn ==
    /\ cpc = "start_wait"
    /\ ready_event
    /\ cpc' = "idle"
    /\ waited' = 0
    /\ outcome' = Gave("start", "")
    /\ start_returned' = TRUE
    /\ UNCHANGED <<wpc, bridge_session, ready_event, shutdown_event, transport,
                   loop_queue, future, rest>>

\* call_tool(): the session check, then run_coroutine_threadsafe
CallTool ==
    /\ cpc = "idle"
    /\ IF bridge_session = "none"
       THEN /\ outcome' = Threw("call_tool", "Session not initialized")
            /\ UNCHANGED <<cpc, waited, loop_queue, future>>
       ELSE /\ Len(loop_queue) < MaxQueue
            /\ loop_queue' = Append(loop_queue, "tool")
            /\ future' = "pending"
            /\ cpc' = "call_wait"
            /\ waited' = 0
            /\ outcome' = Entered("call_tool")
    /\ UNCHANGED <<start_returned, wpc, bridge_session, ready_event, shutdown_event,
                   transport, rest>>

\* future.result(timeout=15) ends: the future is done or the time is up
CallReturn ==
    /\ cpc = "call_wait"
    /\ future # "pending" \/ waited = CallTimeout
    /\ outcome' = CallOutcome(future)
    /\ cpc' = "idle"
    /\ waited' = 0
    /\ future' = "none"
    /\ loop_queue' = Abandon(loop_queue)
    /\ UNCHANGED <<start_returned, wpc, bridge_session, ready_event, shutdown_event,
                   transport, rest>>

\* close(): if the loop is running, hand shutdown_event.set to it and join
Close ==
    /\ cpc = "idle"
    /\ IF ~LoopIsRunning(wpc)
       THEN /\ outcome' = Gave("close", "")
            /\ UNCHANGED <<cpc, waited, loop_queue>>
       ELSE IF shutdown_event = "none"
       THEN /\ outcome' = Threw("close", "AttributeError")
            /\ UNCHANGED <<cpc, waited, loop_queue>>
       ELSE /\ Len(loop_queue) < MaxQueue
            /\ loop_queue' = Append(loop_queue, "shutdown")
            /\ cpc' = "join_wait"
            /\ waited' = 0
            /\ outcome' = Entered("close")
    /\ UNCHANGED <<start_returned, wpc, bridge_session, ready_event, shutdown_event,
                   transport, future, rest>>

\* thread.join(timeout=3) ends: the thread has ended or the time is up
JoinReturn ==
    /\ cpc = "join_wait"
    /\ ThreadEnded(wpc) \/ waited = JoinTimeout
    /\ outcome' = Gave("close", "")
    /\ cpc' = "idle"
    /\ waited' = 0
    /\ UNCHANGED <<start_returned, wpc, bridge_session, ready_event, shutdown_event,
                   transport, loop_queue, future, rest>>

\* the longest the caller's current wait can last
Ceiling(c) ==
    IF c = "call_wait" THEN CallTimeout
    ELSE IF c = "join_wait" THEN JoinTimeout
    ELSE MaxWaited

\* one time unit passes while the caller waits
Tick ==
    /\ cpc # "idle"
    /\ waited < Ceiling(cpc)
    /\ waited' = waited + 1
    /\ UNCHANGED <<cpc, outcome, start_returned, wpc, bridge_session, ready_event,
                   shutdown_event, transport, loop_queue, future, rest>>

\* -- the worker thread
\* the worker moves on without touching what the caller reads
WorkerOnly == UNCHANGED <<cpc, waited, outcome, start_returned, rest>>

\* _run_loop: run_until_complete(self._lifecycle())
RunLoop ==
    /\ wpc = "spawned"
    /\ wpc' = "lifecycle"
    /\ WorkerOnly
    /\ UNCHANGED <<bridge_session, ready_event, shutdown_event, transport,
                   loop_queue, future>>

\* self.shutdown_event = asyncio.Event()
CreateShutdownEvent ==
    /\ wpc = "lifecycle"
    /\ wpc' = "connecting"
    /\ shutdown_event' = "clear"
    /\ WorkerOnly
    /\ UNCHANGED <<bridge_session, ready_event, transport, loop_queue, future>>

\* stack.enter_async_context(stdio_client(server_params)): the server
\* process starts, or the exception ends the thread
Connect(ok) ==
    /\ wpc = "connecting"
    /\ wpc' = IF ok THEN "connected" ELSE "failed"
    /\ transport' = ok
    /\ WorkerOnly
    /\ UNCHANGED <<bridge_session, ready_event, shutdown_event, loop_queue, future>>

\* self.session = ... ClientSession(self.stdio, self.write)
AssignSession ==
    /\ wpc = "connected"
    /\ wpc' = "initializing"
    /\ bridge_session' = "set"
    /\ WorkerOnly
    /\ UNCHANGED <<ready_event, shutdown_event, transport, loop_queue, future>>

\* await self.session.initialize(): on an exception the exit stack closes
\* session and transport and the thread ends; self.session stays assigned
Initialize(ok) ==
    /\ wpc = "initializing"
    /\ wpc' = IF ok THEN "initialized" ELSE "failed"
    /\ transport' = ok
    /\ WorkerOnly
    /\ UNCHANGED <<bridge_session, ready_event, shutdown_event, loop_queue, future>>

\* self.ready_event.set(), then await self.shutdown_event.wait()
SetReady ==
    /\ wpc = "initialized"
    /\ wpc' = "waiting"
    /\ ready_event' = TRUE
    /\ WorkerOnly
    /\ UNCHANGED <<bridge_session, shutdown_event, transport, loop_queue, future>>

\* what a tool coroutine can end in on the loop: with the connection open
\* any result, without it an exception; "pending" if the server never answers
ToolResults(open) ==
    IF open THEN {"result_ok", "result_error", "exception", "pending"}
    ELSE {"exception", "pending"}

\* the loop runs the callback at the head of its queue
RunCallback(result) ==
    /\ wpc \in {"waiting", "disconnecting"}
    /\ loop_queue # << >>
    /\ loop_queue' = Tail(loop_queue)
    /\ result \in ToolResults(transport /\ wpc = "waiting")
    /\ shutdown_event' = IF Head(loop_queue) = "shutdown" THEN "set" ELSE shutdown_event
    /\ future' = IF Head(loop_queue) = "tool" THEN result ELSE future
    /\ Head(loop_queue) # "tool" => result = "pending"
    /\ WorkerOnly
    /\ UNCHANGED <<wpc, bridge_session, ready_event, transport>>

\* the wait on the shutdown event is over
ShutdownRequested_Always == TRUE

ShutdownRequested == shutdown_event = "set"

\* await self.shutdown_event.wait() returns: "Disconnecting MCP Server..."
Wake ==
    /\ wpc = "waiting"
    /\ ShutdownRequested
    /\ wpc' = "disconnecting"
    /\ WorkerOnly
    /\ UNCHANGED <<bridge_session, ready_event, shutdown_event, transport,
                   loop_queue, future>>

\* leaving the async with block closes session and transport, _lifecycle
\* returns and the thread ends
Teardown ==
    /\ wpc = "disconnecting"
    /\ wpc' = "stopped"
    /\ transport' = FALSE
    /\ WorkerOnly
    /\ UNCHANGED <<bridge_session, ready_event, shutdown_event, loop_queue, future>>

BridgeNext ==
    \/ Start
    \/ StartReturn
    \/ CallTool
    \/ CallReturn
    \/ Close
    \/ JoinReturn
    \/ Tick
    \/ RunLoop
    \/ CreateShutdownEvent
    \/ \E ok \in BOOLEAN : Connect(ok)
    \/ AssignSession
    \/ \E ok \in BOOLEAN : Initialize(ok)
    \/ SetReady
    \/ \E result \in ToolResults(TRUE) : RunCallback(result)
    \/ Wake
    \/ Teardown

BridgeSpecInit ==
    /\ AgentInit
    /\ ExtractIdle
    /\ ServerIdle
    /\ BridgeInit

SpecBridge == BridgeSpecInit /\ [][BridgeNext]_bvars

\* ================================================================ claims
\* the positions of the calls of kind op in a list of calls
CallsOf(c, kind) == { i \in 1..Len(c) : c[i].op = kind }
BackendCalls(c) == CallsOf(c, "search") \cup CallsOf(c, "book")

\* C1: whenever the session is in AWAITING_PASSENGER_DETAILS, selected_flight
\* is not None.
C1_AwaitingHasSelection ==
    conversation_state = "AWAITING_PASSENGER_DETAILS" => selected_flight # << >>

C1_Witness ==
    /\ conversation_state = "AWAITING_PASSENGER_DETAILS"
    /\ pc = "prompt"
    /\ Len(last_flights) >= 2
    /\ selected_flight = <<last_flights[2]>>

\* C2: every booking call made for a passenger line is followed by the reset:
\* conversation_state IDLE, selected_flight None, last_flights empty.
C2_BookingAlwaysResets ==
    CallsOf(calls, "book") # {} =>
        /\ conversation_state = "IDLE"
        /\ selected_flight = << >>
        /\ last_flights = << >>

\* C3: a line that contains the word book or reserve, in any case, is
\* classified BOOK_FLIGHT and the oracle is not asked to classify it.
C3_BookingVerbIsLocal ==
    HasBookingVerb(Lower(user_input)) /\ pc # "done" =>
        /\ intent = "BOOK_FLIGHT"
        /\ CallsOf(calls, "classify") = {}

C3_Witness ==
    /\ user_input = <<"Reserve", "a", "seat">>
    /\ intent = "BOOK_FLIGHT"
    /\ CallsOf(calls, "classify") = {}
    /\ CallsOf(calls, "chat") # {}

\* C4: no line ends the program but exit or quit: the loop is at its prompt
\* after every other line, whatever the calls made for it ended in.
C4_NothingIsFatal ==
    /\ pc \in {"prompt", "done"}
    /\ pc = "done" => IsExit(user_input)

\* C5: no call to the backend gateway raises, and a search that meets a
\* backend failure leaves the session in IDLE, at the prompt.
C5_GatewayNeverRaises ==
    \A i \in BackendCalls(calls) :
        /\ ~calls[i].raised
        /\ (calls[i].op = "search" /\ FlightsOf(calls[i].value) = << >>)
               => (conversation_state = "IDLE" /\ pc = "prompt")

\* C6: after a search that returned a non-empty list the session is in
\* SEARCH_DONE and last_flights holds the min(7, n) cheapest of the n
\* returned offers, each once, in ascending order of price.
C6_SearchCachesCheapest ==
    \A i \in CallsOf(calls, "search") :
        LET fl == FlightsOf(calls[i].value)
            shown == { last_flights[a].offerId : a \in 1..Len(last_flights) }
        IN  (~calls[i].raised /\ fl # << >>) =>
            /\ intent = "SEARCH_FLIGHTS"
            /\ conversation_state = "SEARCH_DONE"
            /\ pc = "prompt"
            /\ Len(last_flights) = Min(7, Len(fl))
            /\ Cardinality(shown) = Len(last_flights)
            /\ \A a \in 1..Len(last_flights) :
                   /\ last_flights[a].offerId \in 1..Len(fl)
                   /\ last_flights[a] = fl[last_flights[a].offerId]
            /\ \A a, b \in 1..Len(last_flights) :
                   a < b => Float(last_flights[a].price) <= Float(last_flights[b].price)
            /\ \A j \in (1..Len(fl)) \ shown : \A a \in 1..Len(last_flights) :
                   Float(last_flights[a].price) <= Float(fl[j].price)

C6_Witness ==
    \E i \in CallsOf(calls, "search") :
        LET fl == FlightsOf(calls[i].value)
        IN  /\ ~calls[i].raised
            /\ Len(fl) > 7
            /\ Float(fl[1].price) > Float(fl[Len(fl)].price)
            /\ conversation_state = "SEARCH_DONE"
            /\ Len(last_flights) = 7
            /\ last_flights[1] = fl[Len(fl)]

\* the line read by the step: the number k of "option k", 1 when none is given
ClaimedOption(line) ==
    IF HasOptionIndex(Lower(line)) THEN OptionNumber(Lower(line)) ELSE 1

Declined ==
    /\ conversation_state' = "IDLE"
    /\ last_flights' = << >>
    /\ selected_flight' = << >>
    /\ BackendCalls(calls') = {}

\* C8 as stated: every line with a decline phrase read in SEARCH_DONE moves
\* the session to IDLE and clears the cached offers, with no backend call.
C8_EveryDeclineLineClears ==
    [][ (/\ pc = "prompt"
         /\ conversation_state = "SEARCH_DONE"
         /\ IsDecline(Lower(user_input')))
        => Declined ]_vars

\* C8 amended: a line with a decline phrase read in SEARCH_DONE that is not
\* exactly exit or quit and does not also match the booking-select phrase
\* moves the session to IDLE and clears the cached offers, with no backend
\* call, and the loop goes on.
C8_DeclineClears ==
    [][ (/\ pc = "prompt"
         /\ conversation_state = "SEARCH_DONE"
         /\ IsDecline(Lower(user_input'))
         /\ ~IsBookSelect(Lower(user_input'))
         /\ ~IsExit(user_input'))
        => (Declined /\ pc' = "prompt") ]_vars

\* only the decline branch leaves IDLE behind a decline line with no call
\* but the classification
C8_Witness ==
    /\ user_input = <<"No">>
    /\ conversation_state = "IDLE"
    /\ pc = "prompt"
    /\ Len(calls) = 1
    /\ calls[1].op = "classify"

\* what C9 promises of a step
Reprompted ==
    /\ UNCHANGED session
    /\ CallsOf(calls', "book") = {}
    /\ pc' = "prompt"

\* C9 as stated: every line read in AWAITING_PASSENGER_DETAILS that does not
\* match the passenger pattern leaves the session unchanged, books nothing,
\* and the user is prompted again.
C9_EveryBadLineReprompts ==
    [][ (/\ pc = "prompt"
         /\ conversation_state = "AWAITING_PASSENGER_DETAILS"
         /\ parse_passenger_details(user_input') = << >>)
        => Reprompted ]_vars

\* C9 amended: the same, for every such line other than exit and quit (which
\* end the loop, the session unchanged and nothing booked).
C9_BadLineReprompts ==
    [][ (/\ pc = "prompt"
         /\ conversation_state = "AWAITING_PASSENGER_DETAILS"
         /\ parse_passenger_details(user_input') = << >>)
        => IF IsExit(user_input')
           THEN UNCHANGED session /\ calls' = << >> /\ pc' = "done"
           ELSE Reprompted ]_vars

C9_Witness ==
    /\ user_input = <<"John", "Doe", "tomorrow", "ECONOMY">>
    /\ conversation_state = "AWAITING_PASSENGER_DETAILS"
    /\ selected_flight # << >>
    /\ pc = "prompt"

\* what C10 promises of a step
RoutedToChat ==
    /\ UNCHANGED session
    /\ BackendCalls(calls') = {}
    /\ Cardinality(CallsOf(calls', "classify")) <= 1
    /\ Cardinality(CallsOf(calls', "chat")) = 1
    /\ pc' = "prompt"

\* the transition triggers of section 4.3, for the line read by the step:
\* SEARCH_FLIGHTS intent with valid params (the search is issued) in IDLE, a
\* booking-select or decline phrase in SEARCH_DONE, any line in
\* AWAITING_PASSENGER_DETAILS
MatchesTrigger ==
    \/ /\ conversation_state = "IDLE"
       /\ intent' = "SEARCH_FLIGHTS"
       /\ CallsOf(calls', "search") # {}
    \/ /\ conversation_state = "SEARCH_DONE"
       /\ IsBookSelect(Lower(user_input')) \/ IsDecline(Lower(user_input'))
    \/ conversation_state = "AWAITING_PASSENGER_DETAILS"

\* C10 as stated: a line that matches no transition trigger of the state it
\* is read in leaves the session unchanged, makes no backend call, is
\* classified at most once, and is routed to the chat oracle.
C10_EveryUnmatchedLineChats ==
    [][ (pc = "prompt" /\ vars' # vars /\ ~MatchesTrigger) => RoutedToChat ]_vars

\* C10 amended: a line other than exit and quit that is read in IDLE with an
\* intent other than SEARCH_FLIGHTS, or read in SEARCH_DONE with neither a
\* booking-select nor a decline phrase, leaves the session unchanged, makes
\* no backend call, is classified at most once, and is routed to the chat
\* oracle; a line read in IDLE with intent SEARCH_FLIGHTS whose parameters
\* cannot be extracted also leaves the session unchanged with no backend
\* call, but is answered without the chat oracle.
C10_UnmatchedLineChats ==
    [][ (pc = "prompt" /\ vars' # vars /\ ~IsExit(user_input')) =>
          /\ (\/ conversation_state = "IDLE" /\ intent' # "SEARCH_FLIGHTS"
              \/ /\ conversation_state = "SEARCH_DONE"
                 /\ ~IsBookSelect(Lower(user_input'))
                 /\ ~IsDecline(Lower(user_input')))
             => RoutedToChat
          /\ (/\ conversation_state = "IDLE"
              /\ intent' = "SEARCH_FLIGHTS"
              /\ CallsOf(calls', "search") = {}
              /\ pc' = "prompt")
             => (/\ UNCHANGED session
                 /\ CallsOf(calls', "chat") = {}
                 /\ Cardinality(CallsOf(calls', "classify")) <= 1) ]_vars

\* an unrecognised label in SEARCH_DONE: the cached offers stay, the chat
\* oracle answers
C10_Witness ==
    /\ user_input = <<"hello">>
    /\ intent = "UNSURE"
    /\ conversation_state = "SEARCH_DONE"
    /\ last_flights # << >>
    /\ Cardinality(CallsOf(calls, "chat")) = 1
    /\ pc = "prompt"

\* C11: extract_search_params never raises: every call ends in params or in
\* the empty result.
C11_ExtractNeverRaises == xresult.status \in {"none", "ok", "empty"}

\* a date as one number, for comparisons
Ordinal(date) == date[1] * 10000 + date[2] * 100 + date[3]

\* the fallback ran on a text with origin, destination and a day-month phrase
FallbackParsed ==
    /\ xresult.status # "none"
    /\ xllm # "complete"
    /\ CityAfter(Lower(xtext), "from") # ""
    /\ CityAfter(Lower(xtext), "to") # ""
    /\ HasDate(Lower(xtext))

\* C12: when the fallback parses a day and a month that name a date of
\* today's year, the resolved year is today's year + 1 if that date is
\* strictly before today and today's year otherwise, and a departDate that
\* is returned has that year and is not before today.
C12_YearRollsForward ==
    FallbackParsed =>
        LET day == IntOf(Lower(xtext)[DateAt(Lower(xtext))])
            month == MonthOf(Lower(xtext)[DateAt(Lower(xtext)) + 1])
            expected == IF Ordinal(<<today[1], month, day>>) < Ordinal(today)
                        THEN today[1] + 1 ELSE today[1]
        IN  ValidDate(today[1], month, day) =>
            /\ xresult.year = expected
            /\ xresult.status = "ok" =>
                  /\ xresult.params.departDate = <<expected, month, day>>
                  /\ Ordinal(xresult.params.departDate) >= Ordinal(today)
            /\ ValidDate(expected, month, day) => xresult.status = "ok"

\* a date earlier in the year than today is moved to next year
C12_Witness ==
    /\ FallbackParsed
    /\ xresult.status = "ok"
    /\ xresult.year = today[1] + 1
    /\ xresult.params.departDate[1] = today[1] + 1

\* C13: every POST /tools/{name} is answered with JSON, the backend's or an
\* error object: an unregistered name gives the error object and no backend
\* call, and a backend failure during a registered tool gives an error
\* object rather than an unhandled exception.
C13_AnswerIsJsonOrError ==
    http_request # NoRequest =>
        /\ http_response.exception = ""
        /\ http_response.json
        /\ http_request.tool_name \notin TOOLS =>
              http_response.body = JError /\ ~http_response.backend
        /\ http_request.tool_name \in TOOLS /\ http_response.backend =>
              /\ http_response.route = Route(http_request.tool_name)
              /\ http_response.body =
                    IF backend_answer.kind = "json" THEN backend_answer.body ELSE JError

\* a step of the caller thread that enters call_tool
EntersCallTool == cpc = "idle" /\ outcome' # outcome /\ outcome'.op = "call_tool"

\* C14: a call_tool made after start() has returned goes into a wait that
\* never lasts longer than CallTimeout and can always end, and ends by
\* returning the tool's text or an error string, never by raising; a
\* call_tool made while self.session is None raises "Session not
\* initialized" and hands nothing to the worker loop.
C14_CallToolReturnsInTime ==
    /\ [](cpc = "call_wait" =>
            /\ start_returned
            /\ waited <= CallTimeout
            /\ ENABLED (Tick \/ CallReturn))
    /\ [][ /\ EntersCallTool /\ start_returned =>
                /\ cpc' = "call_wait"
                /\ outcome'.status = "running"
           /\ cpc = "call_wait" /\ cpc' # "call_wait" =>
                /\ cpc' = "idle"
                /\ outcome'.op = "call_tool"
                /\ outcome'.status = "returned"
                /\ outcome'.value =
                      IF future = "result_ok" THEN "text"
                      ELSE IF future = "result_error" THEN "Error: content"
                      ELSE "Error executing tool"
           /\ EntersCallTool /\ bridge_session = "none" =>
                /\ outcome' = Threw("call_tool", "Session not initialized")
                /\ loop_queue' = loop_queue
                /\ future' = future
                /\ cpc' = "idle" ]_bvars

\* after close() the loop is stopped: a call waited its whole timeout and
\* came back with an error string
C14_Witness ==
    /\ wpc = "stopped"
    /\ cpc = "idle"
    /\ outcome = Gave("call_tool", "Error executing tool")
    /\ loop_queue # << >>
    /\ loop_queue[Len(loop_queue)] = "stale"

\* a step of the caller thread that enters close
EntersClose == cpc = "idle" /\ outcome' # outcome /\ outcome'.op = "close"

\* C15: close() on a running loop hands shutdown_event.set to the worker
\* loop and joins for at most JoinTimeout, so it always returns; the worker
\* leaves its wait only once the shutdown event is set, then closes the
\* connection and ends; it is never past its wait before close() signalled.
C15_CloseIsBoundedHandshake ==
    /\ [](cpc = "join_wait" =>
            /\ waited <= JoinTimeout
            /\ ENABLED (Tick \/ JoinReturn))
    /\ [](wpc \in {"disconnecting", "stopped"} =>
            shutdown_event = "set")
    /\ [](shutdown_event = "set" => start_returned)
    /\ [][ /\ EntersClose /\ LoopIsRunning(wpc) =>
                /\ loop_queue' = Append(loop_queue, "shutdown")
                /\ cpc' = "join_wait"
           /\ EntersClose /\ ~LoopIsRunning(wpc) =>
                /\ cpc' = "idle"
                /\ outcome' = Gave("close", "")
                /\ loop_queue' = loop_queue
           /\ cpc = "join_wait" /\ cpc' # "join_wait" =>
                /\ cpc' = "idle"
                /\ outcome' = Gave("close", "")
           /\ wpc = "waiting" /\ wpc' # wpc =>
                /\ shutdown_event = "set"
                /\ wpc' = "disconnecting"
           /\ wpc = "disconnecting" /\ wpc' # wpc =>
                /\ wpc' = "stopped"
                /\ ~transport' ]_bvars

\* close() came back because the worker ended within the join timeout
C15_Witness ==
    /\ outcome = Gave("close", "")
    /\ cpc = "idle"
    /\ wpc = "stopped"
    /\ ~transport
    /\ shutdown_event = "set"

\* C18: a caller inside start() is never left waiting for a worker thread
\* that has ended without setting the ready event.
C18_StartAlwaysReturns ==
    cpc = "start_wait" => ready_event \/ ~ThreadEnded(wpc)

\* C16: selected_flight is None or one of the offers in last_flights; it is
\* None in IDLE and in SEARCH_DONE, after every line that declines, and
\* after every booking that came back to the prompt.
C16_SelectionIsCachedOffer ==
    /\ [](\/ selected_flight = << >>
          \/ \E i \in 1..Len(last_flights) : selected_flight = <<last_flights[i]>>)
    /\ [](conversation_state \in {"IDLE", "SEARCH_DONE"} => selected_flight = << >>)
    /\ [][ /\ (CallsOf(calls', "book") # {} /\ pc' = "prompt") => selected_flight' = << >>
           /\ (/\ pc = "prompt"
               /\ conversation_state = "SEARCH_DONE"
               /\ conversation_state' = "IDLE") => selected_flight' = << >> ]_vars

\* a selection out of a full list of cached offers
C16_Witness ==
    /\ conversation_state = "AWAITING_PASSENGER_DETAILS"
    /\ Len(last_flights) = Limit
    /\ selected_flight = <<last_flights[1]>>
    /\ pc = "prompt"

\* C17: a line handled makes at most one booking call, and a valid
\* passenger line read in AWAITING_PASSENGER_DETAILS makes exactly one; a
\* booking call is made only in AWAITING_PASSENGER_DETAILS with a selection,
\* and after it the program has ended or the session is reset, so the next
\* one needs a new selection, which is made only in SEARCH_DONE, which is
\* entered only from IDLE by a search that returned offers.
C17_BookingIsNotRepeated ==
    [][ /\ Cardinality(CallsOf(calls', "book")) <= 1
        /\ (/\ pc = "prompt"
            /\ conversation_state = "AWAITING_PASSENGER_DETAILS"
            /\ vars' # vars
            /\ ~IsExit(user_input')
            /\ parse_passenger_details(user_input') # << >>)
           => Cardinality(CallsOf(calls', "book")) = 1
        /\ CallsOf(calls', "book") # {} =>
              /\ conversation_state = "AWAITING_PASSENGER_DETAILS"
              /\ selected_flight # << >>
              /\ \/ pc' = "crashed"
                 \/ /\ conversation_state' = "IDLE"
                    /\ selected_flight' = << >>
                    /\ last_flights' = << >>
        /\ (/\ conversation_state # "AWAITING_PASSENGER_DETAILS"
            /\ conversation_state' = "AWAITING_PASSENGER_DETAILS")
           => /\ conversation_state = "SEARCH_DONE"
              /\ selected_flight' # << >>
              /\ BackendCalls(calls') = {}
        /\ (/\ conversation_state # "SEARCH_DONE"
            /\ conversation_state' = "SEARCH_DONE")
           => /\ conversation_state = "IDLE"
              /\ selected_flight' = << >>
              /\ \E i \in CallsOf(calls', "search") :
                    /\ ~calls'[i].raised
                    /\ FlightsOf(calls'[i].value) # << >> ]_vars

\* a booking the backend refused: one call, and the session is reset
C17_Witness ==
    /\ Cardinality(CallsOf(calls, "book")) = 1
    /\ \E i \in CallsOf(calls, "book") : ~calls[i].raised /\ calls[i].value = JError
    /\ conversation_state = "IDLE"
    /\ selected_flight = << >>
    /\ last_flights = << >>
    /\ pc = "prompt"

====
